---------------------------- MODULE Spec2Model ----------------------------
(***************************************************************************)
(* A model of the index generator (src/索引器.py and src/索引器2.0.py):    *)
(* term extraction from page text, accumulation of the term -> pages map,  *)
(* rendering of the Typst index file, and the GUI that drives them from a  *)
(* background thread.                                                      *)
(*                                                                         *)
(* A Python str is modelled as a sequence of one-character strings, so     *)
(* that the regular expressions, lower(), upper(), sorted() and replace()  *)
(* are computed character by character as the interpreter computes them.   *)
(* Only ASCII text is modelled.                                            *)
(***************************************************************************)
EXTENDS Integers, Sequences, FiniteSets, TLC

(***************************************************************************)
(* Bounds of the model.                                                    *)
(***************************************************************************)
\* Longest generated page text, counted in pieces of TextPieces.
MaxPieces == 4
\* Most pages of a generated document.
MaxPages == 2

(***************************************************************************)
(* Characters.                                                             *)
(***************************************************************************)
\* The printable ASCII characters in code point order, from 32 (space) on
\* (code point 96, the grave accent, is spelled out: no text of the model uses it).
Printable == <<
    " ", "!", "\"", "#", "$", "%", "&", "'", "(", ")", "*", "+", ",", "-", ".", "/", "0", "1",
    "2", "3", "4", "5", "6", "7", "8", "9", ":", ";", "<", "=", ">", "?", "@", "A", "B", "C",
    "D", "E", "F", "G", "H", "I", "J", "K", "L", "M", "N", "O", "P", "Q", "R", "S", "T", "U",
    "V", "W", "X", "Y", "Z", "[", "\\", "]", "^", "_", "grave", "a", "b", "c", "d", "e", "f", "g",
    "h", "i", "j", "k", "l", "m", "n", "o", "p", "q", "r", "s", "t", "u", "v", "w", "x", "y",
    "z", "{", "|", "}", "~" >>

UPPER == {Printable[k] : k \in 34..59}
LOWER == {Printable[k] : k \in 66..91}
DIGITS == {Printable[k] : k \in 17..26}
\* [a-zA-Z]
LETTERS == UPPER \cup LOWER
\* \w of the re module, restricted to ASCII
WORD_CHARS == LETTERS \cup DIGITS \cup {"_"}
\* \s of the re module, restricted to the white space the page texts use
SPACE == {" ", "\n", "\t"}
\* the character class [a-zA-Z-./] of WORD_REGEX
WORD_CLASS == LETTERS \cup {"-", ".", "/"}

\* ord(c)
Ord(c) ==
    IF c = "\t" THEN 9
    ELSE IF c = "\n" THEN 10
    ELSE 31 + (CHOOSE k \in 1..Len(Printable) : Printable[k] = c)

\* str.lower() and str.upper() of one ASCII character
LowerChar(c) == IF c \in UPPER THEN Printable[Ord(c) - 31 + 32] ELSE c
UpperChar(c) == IF c \in LOWER THEN Printable[Ord(c) - 31 - 32] ELSE c

lower(s) == [k \in 1..Len(s) |-> LowerChar(s[k])]

Max(S) == CHOOSE x \in S : \A y \in S : y <= x
Min(S) == CHOOSE x \in S : \A y \in S : x <= y

(***************************************************************************)
(* The regular expression engine: positions are 1-based, position p is the *)
(* gap before character p, and a match attempt returns the position after  *)
(* the match or 0 when it fails.  Quantifiers are greedy and give back one *)
(* character at a time, alternatives are tried in order.                   *)
(***************************************************************************)
CharAt(text, p) == IF p \in 1..Len(text) THEN text[p] ELSE ""

\* \b : exactly one side of the gap is a \w character
Boundary(text, p) ==
    (CharAt(text, p - 1) \in WORD_CHARS) # (CharAt(text, p) \in WORD_CHARS)

\* the position after the longest run of characters of cls that starts at p
RunEnd(text, p, cls) ==
    CHOOSE q \in p..(Len(text) + 1) :
        /\ \A k \in p..(q - 1) : text[k] \in cls
        /\ (q = Len(text) + 1 \/ text[q] \notin cls)

\* A greedy quantifier: tries holds, for each length the quantifier can take,
\* the pair of the position k it ends at and of what the rest of the pattern
\* matches from k.  The longest length for which the rest matches wins.
Greedy(tries) ==
    LET ok == {t \in tries : t[2] # 0}
    IN  IF ok = {} THEN 0
        ELSE (CHOOSE t \in ok : \A u \in ok : u[1] <= t[1])[2]

HasPrefix(text, p, w) ==
    /\ p + Len(w) - 1 <= Len(text)
    /\ \A k \in 1..Len(w) : text[p + k - 1] = w[k]

\* WORD_REGEX = \b[a-zA-Z-./]+(?:\s*/\s*[a-zA-Z-./]+)*\b
RECURSIVE WordTail(_, _)
\* "/" at q, then \s*[a-zA-Z-./]+ and the rest of the pattern
WordSlashAt(text, q) ==
    IF CharAt(text, q) # "/" THEN 0
    ELSE Greedy({<<r, Greedy({<<e, WordTail(text, e)>> :
                                  e \in (r + 1)..RunEnd(text, r, WORD_CLASS)})>> :
                     r \in (q + 1)..RunEnd(text, q + 1, SPACE)})

\* (?:\s*/\s*[a-zA-Z-./]+)*\b from position p
WordTail(text, p) ==
    LET g == Greedy({<<q, WordSlashAt(text, q)>> : q \in p..RunEnd(text, p, SPACE)})
    IN  IF g # 0 THEN g
        ELSE IF Boundary(text, p) THEN p ELSE 0

WordMatch(text, s) ==
    IF ~(Boundary(text, s) /\ CharAt(text, s) \in WORD_CLASS) THEN 0
    ELSE Greedy({<<e, WordTail(text, e)>> : e \in (s + 1)..RunEnd(text, s, WORD_CLASS)})

\* the connector words of the phrase pattern, in the order of the alternation
CONNECTORS == << <<"o", "f">>, <<"t", "h", "e">>, <<"a", "n", "d">>, <<"f", "o", "r">>,
                 <<"i", "n">>, <<"t", "o">>, <<"o", "n">> >>

\* \b[A-Z][a-zA-Z]*(?:\s+(?:of|the|and|for|in|to|on)\s+[A-Z][a-zA-Z]*)*(?:\s+[A-Z][a-zA-Z]*)*\b
RECURSIVE PhraseTail1(_, _)
RECURSIVE PhraseTail2(_, _)
\* [A-Z][a-zA-Z]* at r inside the connector group
CapWord1(text, r) ==
    IF CharAt(text, r) \notin UPPER THEN 0
    ELSE Greedy({<<e, PhraseTail1(text, e)>> : e \in (r + 1)..RunEnd(text, r + 1, LETTERS)})

\* [A-Z][a-zA-Z]* at r inside the plain group
CapWord2(text, r) ==
    IF CharAt(text, r) \notin UPPER THEN 0
    ELSE Greedy({<<e, PhraseTail2(text, e)>> : e \in (r + 1)..RunEnd(text, r + 1, LETTERS)})

\* (?:of|the|and|for|in|to|on)\s+[A-Z][a-zA-Z]* at q, then the rest
ConnectorAt(text, q, k) ==
    IF ~HasPrefix(text, q, CONNECTORS[k]) THEN 0
    ELSE LET q2 == q + Len(CONNECTORS[k])
         IN  Greedy({<<r, CapWord1(text, r)>> : r \in (q2 + 1)..RunEnd(text, q2, SPACE)})

PhraseAfterSpace(text, q) ==
    LET hits == {k \in 1..Len(CONNECTORS) : ConnectorAt(text, q, k) # 0}
    IN  IF hits = {} THEN 0 ELSE ConnectorAt(text, q, Min(hits))

\* (?:\s+[A-Z][a-zA-Z]*)*\b from position p
PhraseTail2(text, p) ==
    LET g == Greedy({<<r, CapWord2(text, r)>> : r \in (p + 1)..RunEnd(text, p, SPACE)})
    IN  IF g # 0 THEN g
        ELSE IF Boundary(text, p) THEN p ELSE 0

\* (?:\s+(?:of|...|on)\s+[A-Z][a-zA-Z]*)* and what follows, from position p
PhraseTail1(text, p) ==
    LET g == Greedy({<<q, PhraseAfterSpace(text, q)>> : q \in (p + 1)..RunEnd(text, p, SPACE)})
    IN  IF g # 0 THEN g ELSE PhraseTail2(text, p)

PhraseMatch(text, s) ==
    IF ~Boundary(text, s) THEN 0 ELSE CapWord1(text, s)

\* re.findall(WORD_REGEX, text), scanning from position pos
RECURSIVE FindWords(_, _)
FindWords(text, pos) ==
    IF pos > Len(text) THEN << >>
    ELSE LET e == WordMatch(text, pos)
         IN  IF e # 0 THEN <<SubSeq(text, pos, e - 1)>> \o FindWords(text, e)
             ELSE FindWords(text, pos + 1)

\* re.findall(<phrase pattern>, text), scanning from position pos
RECURSIVE FindPhrases(_, _)
FindPhrases(text, pos) ==
    IF pos > Len(text) THEN << >>
    ELSE LET e == PhraseMatch(text, pos)
         IN  IF e # 0 THEN <<SubSeq(text, pos, e - 1)>> \o FindPhrases(text, e)
             ELSE FindPhrases(text, pos + 1)

\* re.sub(r'\s*/\s*', '/', term), scanning from position i
RECURSIVE SubSlash(_, _)
SubSlash(term, i) ==
    IF i > Len(term) THEN << >>
    ELSE LET j == RunEnd(term, i, SPACE)
         IN  IF CharAt(term, j) = "/"
             THEN <<"/">> \o SubSlash(term, RunEnd(term, j + 1, SPACE))
             ELSE <<term[i]>> \o SubSlash(term, i + 1)

(***************************************************************************)
(* IndexerBackend: term extraction.                                        *)
(***************************************************************************)
STOP_WORDS == {
    <<"a">>, <<"a", "b", "o", "u", "t">>, <<"a", "b", "o", "v", "e">>,
    <<"a", "f", "t", "e", "r">>, <<"a", "g", "a", "i", "n">>,
    <<"a", "g", "a", "i", "n", "s", "t">>, <<"a", "l", "l">>, <<"a", "m">>, <<"a", "n">>,
    <<"a", "n", "d">>, <<"a", "n", "y">>, <<"a", "r", "e">>, <<"a", "r", "e", "n", "'", "t">>,
    <<"a", "s">>, <<"a", "t">>, <<"b", "e">>, <<"b", "e", "c", "a", "u", "s", "e">>,
    <<"b", "e", "e", "n">>, <<"b", "e", "f", "o", "r", "e">>, <<"b", "e", "i", "n", "g">>,
    <<"b", "e", "l", "o", "w">>, <<"b", "e", "t", "w", "e", "e", "n">>, <<"b", "o", "t", "h">>,
    <<"b", "u", "t">>, <<"b", "y">>, <<"c", "a", "n", "'", "t">>,
    <<"c", "a", "n", "n", "o", "t">>, <<"c", "o", "u", "l", "d">>,
    <<"c", "o", "u", "l", "d", "n", "'", "t">>, <<"d", "i", "d">>,
    <<"d", "i", "d", "n", "'", "t">>, <<"d", "o">>, <<"d", "o", "e", "s">>,
    <<"d", "o", "e", "s", "n", "'", "t">>, <<"d", "o", "i", "n", "g">>,
    <<"d", "o", "n", "'", "t">>, <<"d", "o", "w", "n">>, <<"d", "u", "r", "i", "n", "g">>,
    <<"e", "a", "c", "h">>, <<"f", "e", "w">>, <<"f", "o", "r">>, <<"f", "r", "o", "m">>,
    <<"f", "u", "r", "t", "h", "e", "r">>, <<"h", "a", "d">>, <<"h", "a", "d", "n", "'", "t">>,
    <<"h", "a", "s">>, <<"h", "a", "s", "n", "'", "t">>, <<"h", "a", "v", "e">>,
    <<"h", "a", "v", "e", "n", "'", "t">>, <<"h", "a", "v", "i", "n", "g">>, <<"h", "e">>,
    <<"h", "e", "'", "d">>, <<"h", "e", "'", "l", "l">>, <<"h", "e", "'", "s">>,
    <<"h", "e", "r">>, <<"h", "e", "r", "e">>, <<"h", "e", "r", "e", "'", "s">>,
    <<"h", "e", "r", "s">>, <<"h", "e", "r", "s", "e", "l", "f">>, <<"h", "i", "m">>,
    <<"h", "i", "m", "s", "e", "l", "f">>, <<"h", "i", "s">>, <<"h", "o", "w">>,
    <<"h", "o", "w", "'", "s">>, <<"i">>, <<"i", "'", "d">>, <<"i", "'", "l", "l">>,
    <<"i", "'", "m">>, <<"i", "'", "v", "e">>, <<"i", "f">>, <<"i", "n">>,
    <<"i", "n", "t", "o">>, <<"i", "s">>, <<"i", "s", "n", "'", "t">>, <<"i", "t">>,
    <<"i", "t", "'", "s">>, <<"i", "t", "s">>, <<"i", "t", "s", "e", "l", "f">>,
    <<"l", "e", "t", "'", "s">>, <<"m", "e">>, <<"m", "o", "r", "e">>, <<"m", "o", "s", "t">>,
    <<"m", "u", "s", "t", "n", "'", "t">>, <<"m", "y">>, <<"m", "y", "s", "e", "l", "f">>,
    <<"n", "o">>, <<"n", "o", "r">>, <<"n", "o", "t">>, <<"o", "f">>, <<"o", "f", "f">>,
    <<"o", "n">>, <<"o", "n", "c", "e">>, <<"o", "n", "l", "y">>, <<"o", "r">>,
    <<"o", "t", "h", "e", "r">>, <<"o", "u", "g", "h", "t">>, <<"o", "u", "r">>,
    <<"o", "u", "r", "s">>, <<"o", "u", "r", "s", "e", "l", "v", "e", "s">>, <<"o", "u", "t">>,
    <<"o", "v", "e", "r">>, <<"o", "w", "n">>, <<"s", "a", "m", "e">>,
    <<"s", "h", "a", "n", "'", "t">>, <<"s", "h", "e">>, <<"s", "h", "e", "'", "d">>,
    <<"s", "h", "e", "'", "l", "l">>, <<"s", "h", "e", "'", "s">>,
    <<"s", "h", "o", "u", "l", "d">>, <<"s", "h", "o", "u", "l", "d", "n", "'", "t">>,
    <<"s", "o">>, <<"s", "o", "m", "e">>, <<"s", "u", "c", "h">>, <<"t", "h", "a", "n">>,
    <<"t", "h", "a", "t">>, <<"t", "h", "a", "t", "'", "s">>, <<"t", "h", "e">>,
    <<"t", "h", "e", "i", "r">>, <<"t", "h", "e", "i", "r", "s">>, <<"t", "h", "e", "m">>,
    <<"t", "h", "e", "m", "s", "e", "l", "v", "e", "s">>, <<"t", "h", "e", "n">>,
    <<"t", "h", "e", "r", "e">>, <<"t", "h", "e", "r", "e", "'", "s">>,
    <<"t", "h", "e", "s", "e">>, <<"t", "h", "e", "y">>, <<"t", "h", "e", "y", "'", "d">>,
    <<"t", "h", "e", "y", "'", "l", "l">>, <<"t", "h", "e", "y", "'", "r", "e">>,
    <<"t", "h", "e", "y", "'", "v", "e">>, <<"t", "h", "i", "s">>, <<"t", "h", "o", "s", "e">>,
    <<"t", "h", "r", "o", "u", "g", "h">>, <<"t", "o">>, <<"t", "o", "o">>,
    <<"u", "n", "d", "e", "r">>, <<"u", "n", "t", "i", "l">>, <<"u", "p">>,
    <<"v", "e", "r", "y">>, <<"w", "a", "s">>, <<"w", "a", "s", "n", "'", "t">>, <<"w", "e">>,
    <<"w", "e", "'", "d">>, <<"w", "e", "'", "l", "l">>, <<"w", "e", "'", "r", "e">>,
    <<"w", "e", "'", "v", "e">>, <<"w", "e", "r", "e">>, <<"w", "e", "r", "e", "n", "'", "t">>,
    <<"w", "h", "a", "t">>, <<"w", "h", "a", "t", "'", "s">>, <<"w", "h", "e", "n">>,
    <<"w", "h", "e", "n", "'", "s">>, <<"w", "h", "e", "r", "e">>,
    <<"w", "h", "e", "r", "e", "'", "s">>, <<"w", "h", "i", "c", "h">>,
    <<"w", "h", "i", "l", "e">>, <<"w", "h", "o">>, <<"w", "h", "o", "'", "s">>,
    <<"w", "h", "o", "m">>, <<"w", "h", "y">>, <<"w", "h", "y", "'", "s">>,
    <<"w", "i", "t", "h">>, <<"w", "o", "n", "'", "t">>, <<"w", "o", "u", "l", "d">>,
    <<"w", "o", "u", "l", "d", "n", "'", "t">>, <<"y", "o", "u">>, <<"y", "o", "u", "'", "d">>,
    <<"y", "o", "u", "'", "l", "l">>, <<"y", "o", "u", "'", "r", "e">>,
    <<"y", "o", "u", "'", "v", "e">>, <<"y", "o", "u", "r">>, <<"y", "o", "u", "r", "s">>,
    <<"y", "o", "u", "r", "s", "e", "l", "f">>,
    <<"y", "o", "u", "r", "s", "e", "l", "v", "e", "s">> }

\* a _normalize_term that forgets .lower()
normalize_term_no_lower(term) == SubSlash(term, 1)

normalize_term(term) == lower(SubSlash(term, 1))

Range(s) == {s[k] : k \in 1..Len(s)}

\* the filter with its test inverted: "if word in STOP_WORDS"
FilterStopWords_inverted(words) == SelectSeq(words, LAMBDA w : w \in STOP_WORDS)

\* [word for word in normalized_words if word not in STOP_WORDS]
FilterStopWords(words) == SelectSeq(words, LAMBDA w : w \notin STOP_WORDS)

\* the orders in which list(set(...)) can enumerate a set
Enumerations(S) ==
    {f \in [1..Cardinality(S) -> S] : \A x \in S : \E k \in DOMAIN f : f[k] = x}

\* The lists _extract_terms(text, mode) can return: one list, except in
\* mode phrases, where list(set(...)) fixes no order.
extract_terms(text, mode) ==
    LET raw_words == FindWords(text, 1)
        normalized_words == [k \in 1..Len(raw_words) |-> normalize_term(raw_words[k])]
    IN  IF mode = "words" THEN {FilterStopWords(normalized_words)}
        ELSE IF mode = "words_no_filter" THEN {normalized_words}
        ELSE IF mode = "phrases"
        THEN LET phrases == FindPhrases(text, 1)
                 normalized_phrases == [k \in 1..Len(phrases) |-> lower(phrases[k])]
                 filtered_words == FilterStopWords(normalized_words)
             IN  Enumerations(Range(normalized_phrases \o filtered_words))
        ELSE {<< >>}

\* the set of terms a page yields: the elements of any of the lists
TermSet(text, mode) == UNION {Range(l) : l \in extract_terms(text, mode)}

(***************************************************************************)
(* Inputs.                                                                 *)
(***************************************************************************)
\* the values of the mode radio buttons, and one value no button has
MODES == {"words", "phrases", "words_no_filter"}
ANY_MODES == MODES \cup {"other"}

\* the pieces page texts are generated from
TextPieces == { <<"o", "n">>, <<"O">>, <<"x">>, <<" ">>, <<"/">>, <<"3">> }

RECURSIVE TextsOf(_)
TextsOf(n) ==
    IF n = 0 THEN {<< >>}
    ELSE LET shorter == TextsOf(n - 1)
         IN  shorter \cup {t \o p : t \in shorter, p \in TextPieces}

\* "The Quick Brown Fox"
QuickBrownFox == <<"T", "h", "e", " ", "Q", "u", "i", "c", "k", " ", "B", "r", "o", "w", "n", " ", "F", "o", "x">>

\* "Input / Output"
InputOutput == <<"I", "n", "p", "u", "t", " ", "/", " ", "O", "u", "t", "p", "u", "t">>

\* "O on O x" : a capitalised phrase with a connector word
ConnectorPhrase == <<"O", " ", "o", "n", " ", "O", " ", "x">>

Texts == TextsOf(MaxPieces) \cup {QuickBrownFox, InputOutput, ConnectorPhrase}

(***************************************************************************)
(* IndexerBackend: accumulation of the term -> pages map.                  *)
(***************************************************************************)
\* defaultdict(set)
EmptyMap == << >>

\* term_map[term] = {page}: an assignment where the code adds to the set
AddPage_overwrite(term_map, term, page) ==
    IF term \in DOMAIN term_map
    THEN [term_map EXCEPT ![term] = {page}]
    ELSE term_map @@ (term :> {page})

\* term_map[term].add(page): a missing key is created with an empty set
AddPage(term_map, term, page) ==
    IF term \in DOMAIN term_map
    THEN [term_map EXCEPT ![term] = @ \cup {page}]
    ELSE term_map @@ (term :> {page})

\* the terms of the page recorded in a new map, the earlier pages dropped
RECURSIVE RecordTerms_new_map(_, _, _)
RecordTerms_new_map(term_map, terms, page) ==
    IF terms = << >> THEN << >>
    ELSE LET rest == RecordTerms_new_map(term_map, Tail(terms), page)
         IN  IF Head(terms) \in DOMAIN rest THEN rest
             ELSE rest @@ (Head(terms) :> {page})

\* for term in terms: term_map[term].add(page)
RECURSIVE RecordTerms(_, _, _)
RecordTerms(term_map, terms, page) ==
    IF terms = << >> THEN term_map
    ELSE RecordTerms(AddPage(term_map, Head(terms), page), Tail(terms), page)

\* the pages a document can have: two pages sharing a term, one with a stop word
PageTexts == { <<"O", " ", "x">>, <<"x", " ", "o", "n">> }

\* the documents the PDF library can open: up to MaxPages pages
Docs == UNION {[1..n -> PageTexts] : n \in 0..MaxPages}

(***************************************************************************)
(* IndexerBackend.save_results_as_txt: grouping and rendering.             *)
(***************************************************************************)
\* a < b for two Python strings: by code point, a proper prefix first
LexLess(a, b) ==
    LET n == IF Len(a) < Len(b) THEN Len(a) ELSE Len(b)
        diffs == {k \in 1..n : a[k] # b[k]}
    IN  IF diffs = {} THEN Len(a) < Len(b)
        ELSE Ord(a[Min(diffs)]) < Ord(b[Min(diffs)])

\* sorted(S) for a set of strings
RECURSIVE SortedStrings(_)
SortedStrings(S) ==
    IF S = {} THEN << >>
    ELSE LET m == CHOOSE x \in S : \A y \in S \ {x} : LexLess(x, y)
         IN  <<m>> \o SortedStrings(S \ {m})

\* sorted(S) for a set of one-character strings
RECURSIVE SortedChars(_)
SortedChars(S) ==
    IF S = {} THEN << >>
    ELSE LET m == CHOOSE x \in S : \A y \in S : Ord(x) <= Ord(y)
         IN  <<m>> \o SortedChars(S \ {m})

\* sorted(list(pages)) for a set of page numbers
RECURSIVE SortedInts(_)
SortedInts(S) ==
    IF S = {} THEN << >>
    ELSE <<Min(S)>> \o SortedInts(S \ {Min(S)})

\* the grouping key with .upper() forgotten
BucketKey_no_upper(term) ==
    LET first_letter == term[1]
    IN  IF Ord("A") <= Ord(first_letter) /\ Ord(first_letter) <= Ord("Z")
        THEN first_letter ELSE "#"

\* first_letter = term[0].upper(); 'A' <= first_letter <= 'Z' or '#'
BucketKey(term) ==
    LET first_letter == UpperChar(term[1])
    IN  IF Ord("A") <= Ord(first_letter) /\ Ord(first_letter) <= Ord("Z")
        THEN first_letter ELSE "#"

\* the loop over sorted(term_map.keys()) that fills grouped_terms
RECURSIVE GroupTerms(_, _)
GroupTerms(grouped_terms, terms) ==
    IF terms = << >> THEN grouped_terms
    ELSE LET term == Head(terms)
             key == BucketKey(term)
         IN  GroupTerms(IF key \in DOMAIN grouped_terms
                        THEN [grouped_terms EXCEPT ![key] = Append(@, term)]
                        ELSE grouped_terms @@ (key :> <<term>>),
                        Tail(terms))

Grouped(term_map) == GroupTerms(<< >>, SortedStrings(DOMAIN term_map))

\* the bucket order with the '#' bucket left where sorted() puts it
SortedLetters_hash_not_moved(grouped_terms) == SortedChars(DOMAIN grouped_terms)

\* sorted(grouped_terms.keys()) with '#' removed and appended
SortedLetters(grouped_terms) ==
    LET sorted_letters == SortedChars(DOMAIN grouped_terms)
    IN  IF "#" \in DOMAIN grouped_terms
        THEN SelectSeq(sorted_letters, LAMBDA l : l # "#") \o <<"#">>
        ELSE sorted_letters

\* term.replace('"', '\\"'), scanning from position i
RECURSIVE EscapeQuotes(_, _)
EscapeQuotes(term, i) ==
    IF i > Len(term) THEN << >>
    ELSE (IF term[i] = "\"" THEN <<"\\", "\"">> ELSE <<term[i]>>)
         \o EscapeQuotes(term, i + 1)

\* What one group of f.write calls puts in the file.
\* the fixed preamble, up to the opening of #columns
PreambleChunk == [kind |-> "preamble", letter |-> "", label |-> << >>, pages |-> << >>]
\* the blank line between two bucket blocks
BlankChunk == [kind |-> "blank", letter |-> "", label |-> << >>, pages |-> << >>]
\* the comment naming the bucket, the heading, the rule and the space
HeadingChunk(letter) ==
    [kind |-> "heading", letter |-> letter,
     label |-> IF letter = "#" THEN <<"\\", "#">> ELSE <<letter>>, pages |-> << >>]
\* one term line
TermChunk(term, term_map) ==
    [kind |-> "term", letter |-> "", label |-> EscapeQuotes(term, 1),
     pages |-> SortedInts(term_map[term])]
\* the closing bracket
CloseChunk == [kind |-> "close", letter |-> "", label |-> << >>, pages |-> << >>]

\* for term in grouped_terms[letter]: the term lines
TermLines(terms, term_map) == [k \in 1..Len(terms) |-> TermChunk(terms[k], term_map)]

\* for i, letter in enumerate(sorted_letters): the bucket blocks from the i-th on
RECURSIVE BucketBlocks(_, _, _, _)
BucketBlocks(sorted_letters, i, grouped_terms, term_map) ==
    IF i > Len(sorted_letters) THEN << >>
    ELSE (IF i > 1 THEN <<BlankChunk>> ELSE << >>)
         \o <<HeadingChunk(sorted_letters[i])>>
         \o TermLines(grouped_terms[sorted_letters[i]], term_map)
         \o BucketBlocks(sorted_letters, i + 1, grouped_terms, term_map)

\* every f.write of save_results_as_txt, in order
Writes(term_map) ==
    LET grouped_terms == Grouped(term_map)
    IN  <<PreambleChunk>>
        \o BucketBlocks(SortedLetters(grouped_terms), 1, grouped_terms, term_map)
        \o <<CloseChunk>>

\* the output path before the first save: no file, or a file of an earlier run
NoFile == [exists |-> FALSE, content |-> << >>]
EarlierFile == [exists |-> TRUE, content |-> <<PreambleChunk, CloseChunk>>]

\* the terms of the term maps handed to save_results_as_txt
SaveTerms == { <<"z">>, <<"a", "b">>, <<"B">>, <<"-", "x">>, <<"3", "d">>, <<"a", "\"">> }
SavePageSets == { {1}, 1..MaxPages }
SaveMaps == UNION {[S -> SavePageSets] : S \in SUBSET SaveTerms}

(***************************************************************************)
(* Files, paths and the values the GUI and the backend exchange.           *)
(***************************************************************************)
\* A path as os.path.splitext returns it: the part before the extension and
\* the extension.
DocxPath == [stem |-> "doc", ext |-> <<".", "d", "o", "c", "x">>]
PdfPath == [stem |-> "doc", ext |-> <<".", "P", "D", "F">>]
TxtPath == [stem |-> "doc", ext |-> <<".", "t", "x", "t">>]
Paths == {DocxPath, PdfPath, TxtPath}
\* input_filepath before a file is selected: the empty string
NoPath == [stem |-> "", ext |-> << >>]

\* os.path.splitext(docx_path)[0] + "_temp.pdf"
TempPdfOf(path) == [stem |-> path.stem, ext |-> <<"_", "t", "e", "m", "p", ".", "p", "d", "f">>]

\* a dispatch that takes every extension other than .docx for a PDF
DispatchOn_else_pdf(extension) ==
    IF lower(extension) = <<".", "d", "o", "c", "x">> THEN "extract_from_docx"
    ELSE "extract_from_pdf"

\* _run_backend_task of version 2.0: the method the extension selects
DispatchOn(extension) ==
    IF lower(extension) = <<".", "d", "o", "c", "x">> THEN "extract_from_docx"
    ELSE IF lower(extension) = <<".", "p", "d", "f">> THEN "extract_from_pdf"
    ELSE "unsupported"

\* the page number with the + 1 forgotten
PageNumber_zero_based(i) == i

\* i + 1 : the page number of the i-th page of enumerate(pdf_doc)
PageNumber(i) == i + 1

\* int((i + 1) / num_pages * 100); for the page counts of the model the float
\* result is the integer quotient
Percent(i, num_pages) == ((i + 1) * 100) \div num_pages

\* what a finished extract call hands to its caller
NoResult == [kind |-> "none", error |-> "none", term_map |-> EmptyMap]

\* the arguments of on_processing_complete: (term_map, None) or (None, e)
Completion(term_map, error) ==
    IF error = "none"
    THEN [has_map |-> TRUE, term_map |-> term_map, error |-> "none"]
    ELSE [has_map |-> FALSE, term_map |-> EmptyMap, error |-> error]

\* what a call of save_results_as_txt can leave behind: the open fails, a
\* write fails after k chunks, or every chunk is written
SaveResults(term_map, file) ==
    LET writes == Writes(term_map)
    IN  {[pc |-> "raised", file |-> file]}
        \cup {[pc |-> "raised",
               file |-> [exists |-> TRUE, content |-> SubSeq(writes, 1, k)]] :
                  k \in 0..(Len(writes) - 1)}
        \cup {[pc |-> "returned", file |-> [exists |-> TRUE, content |-> writes]]}

(***************************************************************************)
(* State.                                                                  *)
(***************************************************************************)
VARIABLES
    arg_text,     \* _extract_terms: the text argument
    ret_terms,    \* _extract_terms: mode -> the list the call in that mode returned
    rec_doc,      \* accumulation: the page texts, in document order
    rec_mode,     \* accumulation: the mode of the run
    rec_order,    \* accumulation: the page numbers recorded so far, in recording order
    rec_map,      \* accumulation: term_map
    save_map,     \* save_results_as_txt: the term_map argument
    save_pc,      \* save_results_as_txt: where the call is
    prior_file,   \* the file at output_path when the call began
    out_file,     \* the file at output_path
    save_status,  \* the last text given to status_callback by the call
    FILE_PROCESSING_AVAILABLE,   \* whether the imports of fitz and docx2pdf succeeded
    version,      \* 1: src/索引器.py, 2: src/索引器2.0.py
    input_filepath,      \* SimplifiedIndexerApp.input_filepath
    extraction_mode,     \* SimplifiedIndexerApp.extraction_mode
    start_button,        \* the state of start_button
    processing_thread,   \* "none", or whether the thread is "alive" or "finished"
    status_label,        \* the text of status_label
    progress_bar,        \* progress_bar['value']
    messagebox,          \* the last message box shown since the current run began
    after_queue,         \* the calls of on_processing_complete root.after has queued
    stack,        \* the active calls, outermost first
    pc,           \* where the innermost call is
    caller,       \* who started the current or last run: the "thread", or a "direct" caller
    arg_path,     \* the path argument of the outermost call
    arg_mode,     \* its mode argument
    exc,          \* the exception that is propagating
    result,       \* what the last extract call handed to its caller
    temp_pdf_path,       \* extract_from_docx: temp_pdf_path ("" as NoPath)
    temp_exists,         \* whether the file at the temp path exists
    pdf_doc,      \* the pages of the document fitz.open returned
    pdf_open,     \* whether that document is open
    i,            \* the pages the loop has processed
    term_map,     \* term_map of the running extraction
    ext_calls,    \* the callbacks and library calls the current run has made
    failed_page,  \* the page whose get_text raised in this run, or 0
    open_failed,  \* whether fitz.open raised in this run
    save_dialog,  \* whether this run has shown the save dialog
    save_calls,   \* the calls of save_results_as_txt in this run
    workers,      \* the threads running _run_backend_task: started and not yet over
    update_threads,      \* the threads update_status and update_progress ran on in this run
    completions   \* the calls of on_processing_complete for this run

termsVars == <<arg_text, ret_terms>>
recVars == <<rec_doc, rec_mode, rec_order, rec_map>>
saveVars == <<save_map, save_pc, prior_file, out_file, save_status>>
constVars == <<FILE_PROCESSING_AVAILABLE, version>>
guiVars == <<input_filepath, extraction_mode, start_button, processing_thread,
             status_label, progress_bar, messagebox, after_queue>>
callVars == <<stack, pc, caller, arg_path, arg_mode, exc, result>>
extractVars == <<temp_pdf_path, temp_exists, pdf_doc, pdf_open, i, term_map>>
histVars == <<ext_calls, failed_page, open_failed, save_dialog, save_calls>>
threadVars == <<workers, update_threads, completions>>
appVars == <<constVars, guiVars, callVars, extractVars, histVars, threadVars>>
vars == <<termsVars, recVars, saveVars, appVars>>

TermsIdle == arg_text = << >> /\ ret_terms = << >>
RecIdle == rec_doc = << >> /\ rec_mode = "words" /\ rec_order = << >> /\ rec_map = EmptyMap
SaveIdle ==
    /\ save_map = EmptyMap /\ save_pc = "idle" /\ prior_file = NoFile
    /\ out_file = NoFile /\ save_status = ""
\* the application as __init__ and _create_widgets leave it, nothing running
AppIdle ==
    /\ input_filepath = NoPath /\ extraction_mode = "words"
    /\ start_button = "normal" /\ processing_thread = "none"
    /\ status_label = "ready" /\ progress_bar = 0
    /\ messagebox = "none" /\ after_queue = << >>
    /\ stack = << >> /\ pc = "idle" /\ caller = "none"
    /\ arg_path = NoPath /\ arg_mode = "words" /\ exc = "none" /\ result = NoResult
    /\ temp_pdf_path = NoPath /\ temp_exists = FALSE
    /\ pdf_doc = << >> /\ pdf_open = FALSE /\ i = 0 /\ term_map = EmptyMap
    /\ ext_calls = {} /\ failed_page = 0 /\ open_failed = FALSE
    /\ save_dialog = FALSE /\ save_calls = 0
    /\ workers = 0 /\ update_threads = {} /\ completions = 0
AppOff == FILE_PROCESSING_AVAILABLE = TRUE /\ version = 2 /\ AppIdle

(***************************************************************************)
(* _extract_terms as a pure function: any text, each mode once.            *)
(***************************************************************************)
TermsInit ==
    /\ arg_text \in Texts
    /\ ret_terms = << >>
    /\ RecIdle /\ SaveIdle /\ AppOff

CallExtractTerms ==
    \E m \in ANY_MODES \ DOMAIN ret_terms :
        \E l \in extract_terms(arg_text, m) :
            /\ ret_terms' = ret_terms @@ (m :> l)
            /\ UNCHANGED <<arg_text, recVars, saveVars, appVars>>

TermsNext == CallExtractTerms

SpecTerms == TermsInit /\ [][TermsNext]_vars

(***************************************************************************)
(* The accumulation loop body applied to the pages of a document in any    *)
(* order.                                                                  *)
(***************************************************************************)
\* the documents recorded: their pages may also be empty
RecDocs == UNION {[1..n -> PageTexts \cup {<< >>}] : n \in 0..MaxPages}

RecInit ==
    /\ rec_doc \in RecDocs
    /\ rec_mode \in MODES
    /\ rec_order = << >>
    /\ rec_map = EmptyMap
    /\ TermsIdle /\ SaveIdle /\ AppOff

\* lines 86-89 of extract_from_pdf for page number p
RecordPage ==
    \E p \in DOMAIN rec_doc \ Range(rec_order) :
        \E terms \in extract_terms(rec_doc[p], rec_mode) :
            /\ rec_map' = RecordTerms(rec_map, terms, p)
            /\ rec_order' = Append(rec_order, p)
            /\ UNCHANGED <<rec_doc, rec_mode, termsVars, saveVars, appVars>>

RecNext == RecordPage

SpecRecord == RecInit /\ [][RecNext]_vars

(***************************************************************************)
(* save_results_as_txt, one group of f.write calls at a time: any term     *)
(* map, and any write may fail.                                            *)
(***************************************************************************)
SaveInit ==
    /\ save_map \in SaveMaps
    /\ save_pc = "idle"
    /\ prior_file \in {NoFile, EarlierFile}
    /\ out_file = prior_file
    /\ save_status = ""
    /\ TermsIdle /\ RecIdle /\ AppOff

\* line 119: the status callback; lines 121-127 build grouped_terms in memory
SaveBegin ==
    /\ save_pc = "idle"
    /\ save_status' = "generating"
    /\ save_pc' = "open"
    /\ UNCHANGED <<save_map, prior_file, out_file, termsVars, recVars, appVars>>

\* line 129: open(output_path, 'w') truncates the file, or raises OSError
SaveOpen ==
    /\ save_pc = "open"
    /\ \E ok \in BOOLEAN :
           IF ok
           THEN /\ out_file' = [exists |-> TRUE, content |-> << >>]
                /\ save_pc' = "write"
           ELSE /\ save_pc' = "raised"
                /\ UNCHANGED out_file
    /\ UNCHANGED <<save_map, prior_file, save_status, termsVars, recVars, appVars>>

\* lines 130-164: the next f.write reaches the file, or raises OSError and
\* the with statement closes the file as it is
SaveWrite ==
    /\ save_pc = "write"
    /\ Len(out_file.content) < Len(Writes(save_map))
    /\ \E ok \in BOOLEAN :
           IF ok
           THEN /\ out_file' = [out_file EXCEPT !.content =
                                   Append(@, Writes(save_map)[Len(@) + 1])]
                /\ UNCHANGED save_pc
           ELSE /\ save_pc' = "raised"
                /\ UNCHANGED out_file
    /\ UNCHANGED <<save_map, prior_file, save_status, termsVars, recVars, appVars>>

\* the with block ends; line 166: the status callback
SaveReturn ==
    /\ save_pc = "write"
    /\ Len(out_file.content) = Len(Writes(save_map))
    /\ save_pc' = "returned"
    /\ save_status' = "saved"
    /\ UNCHANGED <<save_map, prior_file, out_file, termsVars, recVars, appVars>>

SaveNext == SaveBegin \/ SaveOpen \/ SaveWrite \/ SaveReturn

SpecSave == SaveInit /\ [][SaveNext]_vars

(***************************************************************************)
(* The application: the GUI handlers on the main thread, the background    *)
(* thread running _run_backend_task, and direct calls of the extract       *)
(* methods of IndexerBackend.  Both source files are modelled; where they  *)
(* differ the action says so.                                              *)
(***************************************************************************)
Init ==
    /\ FILE_PROCESSING_AVAILABLE \in BOOLEAN
    /\ version \in {1, 2}
    /\ AppIdle
    /\ TermsIdle /\ RecIdle /\ SaveIdle

Top == IF stack = << >> THEN "" ELSE stack[Len(stack)]

\* the availability test skipped
CheckAvailable_skipped == TRUE

\* if not FILE_PROCESSING_AVAILABLE: ...
CheckAvailable == FILE_PROCESSING_AVAILABLE

\* a new run begins: what is remembered of the run before is dropped
NewRun ==
    /\ exc' = "none" /\ result' = NoResult
    /\ temp_pdf_path' = NoPath /\ pdf_doc' = << >> /\ pdf_open' = FALSE
    /\ i' = 0 /\ term_map' = EmptyMap
    /\ ext_calls' = {} /\ failed_page' = 0 /\ open_failed' = FALSE
    /\ save_dialog' = FALSE /\ save_calls' = 0
    /\ update_threads' = {} /\ completions' = 0
    /\ save_map' = EmptyMap /\ save_pc' = "idle" /\ prior_file' = NoFile
    /\ out_file' = NoFile /\ save_status' = ""

\* where the caller resumes once the innermost call is gone
ResumeAt(rest) ==
    IF rest = << >> THEN "idle"
    ELSE IF rest[Len(rest)] = "_run_backend_task" THEN "schedule"
    ELSE "finally"

\* the innermost call returns (e = "none") or raises e
Leave(e) ==
    LET rest == SubSeq(stack, 1, Len(stack) - 1)
        outermost == rest = << >> \/ rest[Len(rest)] = "_run_backend_task"
    IN  /\ stack' = rest
        /\ pc' = ResumeAt(rest)
        /\ exc' = e
        /\ UNCHANGED caller
        /\ result' = IF ~outermost THEN result
                     ELSE IF e = "none"
                     THEN [kind |-> "returned", error |-> "none", term_map |-> term_map]
                     ELSE [kind |-> "raised", error |-> e, term_map |-> EmptyMap]

\* a direct call runs on the main thread: no handler runs until it is over
MainThreadFree == ~(caller = "direct" /\ stack # << >>)

\* the thread the running extract call is on: the thread of _run_backend_task,
\* or the main thread for a direct call
CurrentThread == IF caller = "thread" THEN "worker" ELSE "main"

\* self.status_callback / self.progress_callback are update_status and
\* update_progress themselves: they run on the thread that calls them
CallbackOn(thread) == update_threads \cup {thread}

\* the test of the running thread left out
IsAlive_never == FALSE

\* self.processing_thread and self.processing_thread.is_alive()
IsAlive == processing_thread = "alive"

\* select_file: the dialog returns a path (a cancelled dialog changes nothing)
SelectFile ==
    /\ MainThreadFree
    /\ \E path \in Paths : input_filepath' = path
    /\ UNCHANGED <<extraction_mode, start_button, processing_thread, status_label,
                   progress_bar, messagebox, after_queue>>
    /\ UNCHANGED <<constVars, callVars, extractVars, histVars, threadVars>>
    /\ UNCHANGED <<termsVars, recVars, saveVars>>

\* one of the three radio buttons is chosen
SelectMode ==
    /\ MainThreadFree
    /\ \E m \in MODES : extraction_mode' = m
    /\ UNCHANGED <<input_filepath, start_button, processing_thread, status_label,
                   progress_bar, messagebox, after_queue>>
    /\ UNCHANGED <<constVars, callVars, extractVars, histVars, threadVars>>
    /\ UNCHANGED <<termsVars, recVars, saveVars>>

\* start_processing: the command of start_button, which a disabled button
\* does not run
StartProcessing ==
    /\ MainThreadFree
    /\ start_button = "normal"
    /\ IF ~CheckAvailable
       THEN /\ messagebox' = "dependency_missing"
            /\ UNCHANGED <<start_button, processing_thread, callVars, extractVars,
                           histVars, threadVars, saveVars>>
       ELSE IF input_filepath = NoPath
       THEN /\ messagebox' = "no_file"
            /\ UNCHANGED <<start_button, processing_thread, callVars, extractVars,
                           histVars, threadVars, saveVars>>
       ELSE IF IsAlive
       THEN /\ messagebox' = "busy"
            /\ UNCHANGED <<start_button, processing_thread, callVars, extractVars,
                           histVars, threadVars, saveVars>>
       ELSE /\ start_button' = "disabled"
            /\ processing_thread' = "alive"
            /\ stack' = <<"_run_backend_task">>
            /\ pc' = "dispatch"
            /\ caller' = "thread"
            /\ arg_path' = input_filepath
            /\ arg_mode' = extraction_mode
            /\ NewRun
            /\ workers' = workers + 1
            /\ messagebox' = "none"
            /\ UNCHANGED temp_exists
    /\ UNCHANGED <<input_filepath, extraction_mode, status_label, progress_bar, after_queue>>
    /\ UNCHANGED <<constVars, termsVars, recVars>>

\* extract_from_docx or extract_from_pdf called from outside the GUI, on the
\* main thread, with any mode
DirectCall ==
    /\ stack = << >> /\ after_queue = << >> /\ processing_thread # "alive"
    /\ \E method \in {"extract_from_docx", "extract_from_pdf"}, m \in ANY_MODES :
           /\ version = 1 => method = "extract_from_docx"
           /\ stack' = <<method>>
           /\ arg_path' = IF method = "extract_from_docx" THEN DocxPath ELSE PdfPath
           /\ arg_mode' = m
    /\ pc' = "entry"
    /\ caller' = "direct"
    /\ NewRun
    /\ messagebox' = "none"
    /\ UNCHANGED <<input_filepath, extraction_mode, start_button, processing_thread,
                   status_label, progress_bar, after_queue>>
    /\ UNCHANGED <<constVars, temp_exists, workers, termsVars, recVars>>

\* _run_backend_task up to the call of an extract method.  Version 1 calls
\* extract_from_docx whatever the extension is; version 2.0 dispatches on it.
RunBackendTask ==
    /\ Top = "_run_backend_task" /\ pc = "dispatch"
    /\ LET target == IF version = 1 THEN "extract_from_docx"
                     ELSE DispatchOn(arg_path.ext)
       IN  IF target = "unsupported"
           THEN /\ exc' = "ValueError"
                /\ pc' = "schedule"
                /\ UNCHANGED stack
           ELSE /\ stack' = Append(stack, target)
                /\ pc' = "entry"
                /\ UNCHANGED exc
    /\ UNCHANGED <<caller, arg_path, arg_mode, result>>
    /\ UNCHANGED <<guiVars, constVars, extractVars, histVars, threadVars>>
    /\ UNCHANGED <<termsVars, recVars, saveVars>>

\* extract_from_docx, from its first line to the call of convert
DocxEntry ==
    /\ Top = "extract_from_docx" /\ pc = "entry"
    /\ IF ~CheckAvailable
       THEN /\ Leave("ImportError")
            /\ UNCHANGED <<temp_pdf_path, status_label, progress_bar, ext_calls, term_map,
                           update_threads>>
       ELSE /\ term_map' = IF version = 1 THEN EmptyMap ELSE term_map
            /\ status_label' = "converting"
            /\ progress_bar' = 0
            /\ update_threads' = CallbackOn(CurrentThread)
            /\ ext_calls' = ext_calls \cup {"status_callback", "progress_callback"}
            /\ temp_pdf_path' = TempPdfOf(arg_path)
            /\ pc' = "convert"
            /\ UNCHANGED <<stack, caller, exc, result>>
    /\ UNCHANGED <<arg_path, arg_mode, temp_exists, pdf_doc, pdf_open, i>>
    /\ UNCHANGED <<input_filepath, extraction_mode, start_button, processing_thread,
                   messagebox, after_queue>>
    /\ UNCHANGED <<failed_page, open_failed, save_dialog, save_calls, workers, completions>>
    /\ UNCHANGED <<constVars, termsVars, recVars, saveVars>>

\* convert(docx_path, temp_pdf_path): it writes the PDF, or raises, with or
\* without a file left at the temp path.  Version 2.0 then calls
\* extract_from_pdf, version 1 goes on in extract_from_docx.
DocxConvert ==
    /\ Top = "extract_from_docx" /\ pc = "convert"
    /\ ext_calls' = ext_calls \cup {"convert"}
    /\ \E ok \in BOOLEAN, written \in BOOLEAN :
           /\ ok => written
           /\ temp_exists' = (temp_exists \/ written)
           /\ IF ok
              THEN /\ IF version = 2
                      THEN stack' = Append(stack, "extract_from_pdf") /\ pc' = "entry"
                      ELSE pc' = "open" /\ UNCHANGED stack
                   /\ UNCHANGED exc
              ELSE /\ exc' = "ConvertError"
                   /\ pc' = "finally"
                   /\ UNCHANGED stack
    /\ UNCHANGED <<caller, arg_path, arg_mode, result>>
    /\ UNCHANGED <<temp_pdf_path, pdf_doc, pdf_open, i, term_map>>
    /\ UNCHANGED <<failed_page, open_failed, save_dialog, save_calls, threadVars>>
    /\ UNCHANGED <<guiVars, constVars, termsVars, recVars, saveVars>>

\* extract_from_pdf (version 2.0), from its first line to the call of fitz.open
PdfEntry ==
    /\ Top = "extract_from_pdf" /\ pc = "entry"
    /\ IF ~CheckAvailable
       THEN /\ Leave("ImportError")
            /\ UNCHANGED <<status_label, progress_bar, ext_calls, term_map, update_threads>>
       ELSE /\ term_map' = EmptyMap
            /\ status_label' = "extracting"
            /\ progress_bar' = 0
            /\ update_threads' = CallbackOn(CurrentThread)
            /\ ext_calls' = ext_calls \cup {"status_callback", "progress_callback"}
            /\ pc' = "open"
            /\ UNCHANGED <<stack, caller, exc, result>>
    /\ UNCHANGED <<arg_path, arg_mode, temp_pdf_path, temp_exists, pdf_doc, pdf_open, i>>
    /\ UNCHANGED <<input_filepath, extraction_mode, start_button, processing_thread,
                   messagebox, after_queue>>
    /\ UNCHANGED <<failed_page, open_failed, save_dialog, save_calls, workers, completions>>
    /\ UNCHANGED <<constVars, termsVars, recVars, saveVars>>

\* fitz.open: it returns a document, or raises.  In version 2.0 the call is
\* before the try of extract_from_pdf; in version 1 it is inside the try of
\* extract_from_docx, after a second status callback.
OpenPdf ==
    /\ pc = "open"
    /\ status_label' = IF version = 1 THEN "extracting" ELSE status_label
    /\ ext_calls' = ext_calls \cup {"fitz.open"}
                        \cup (IF version = 1 THEN {"status_callback"} ELSE {})
    /\ update_threads' = IF version = 1 THEN CallbackOn(CurrentThread) ELSE update_threads
    /\ \E ok \in BOOLEAN :
           IF ok
           THEN /\ \E doc \in Docs : pdf_doc' = doc
                /\ pdf_open' = TRUE
                /\ i' = 0
                /\ pc' = "loop"
                /\ UNCHANGED <<stack, caller, exc, result, open_failed>>
           ELSE /\ open_failed' = TRUE
                /\ IF version = 2
                   THEN Leave("OpenError")
                   ELSE /\ exc' = "OpenError"
                        /\ pc' = "finally"
                        /\ UNCHANGED <<stack, caller, result>>
                /\ UNCHANGED <<pdf_doc, pdf_open, i>>
    /\ UNCHANGED <<arg_path, arg_mode, temp_pdf_path, temp_exists, term_map>>
    /\ UNCHANGED <<input_filepath, extraction_mode, start_button, processing_thread,
                   progress_bar, messagebox, after_queue>>
    /\ UNCHANGED <<failed_page, save_dialog, save_calls, workers, completions>>
    /\ UNCHANGED <<constVars, termsVars, recVars, saveVars>>

\* one pass of "for i, page in enumerate(pdf_doc)": get_text returns the text
\* of the page, or raises; no except clause is around it
LoopPage ==
    /\ pc = "loop" /\ i < Len(pdf_doc)
    /\ \E ok \in BOOLEAN :
           IF ok
           THEN /\ \E terms \in extract_terms(pdf_doc[i + 1], arg_mode) :
                       term_map' = RecordTerms(term_map, terms, PageNumber(i))
                /\ progress_bar' = Percent(i, Len(pdf_doc))
                /\ ext_calls' = ext_calls \cup {"get_text", "progress_callback"}
                /\ update_threads' = CallbackOn(CurrentThread)
                /\ i' = i + 1
                /\ UNCHANGED <<pc, exc, failed_page>>
           ELSE /\ ext_calls' = ext_calls \cup {"get_text"}
                /\ failed_page' = i + 1
                /\ exc' = "PageError"
                /\ pc' = "finally"
                /\ UNCHANGED <<term_map, progress_bar, i, update_threads>>
    /\ UNCHANGED <<stack, caller, arg_path, arg_mode, result>>
    /\ UNCHANGED <<temp_pdf_path, temp_exists, pdf_doc, pdf_open>>
    /\ UNCHANGED <<input_filepath, extraction_mode, start_button, processing_thread,
                   status_label, messagebox, after_queue>>
    /\ UNCHANGED <<open_failed, save_dialog, save_calls, workers, completions>>
    /\ UNCHANGED <<constVars, termsVars, recVars, saveVars>>

\* the loop is over.  Version 1 closes the document here, on this path only.
LoopEnd ==
    /\ pc = "loop" /\ i = Len(pdf_doc)
    /\ pc' = "finally"
    /\ pdf_open' = IF version = 1 THEN FALSE ELSE pdf_open
    /\ ext_calls' = IF version = 1 THEN ext_calls \cup {"close"} ELSE ext_calls
    /\ UNCHANGED <<stack, caller, arg_path, arg_mode, exc, result>>
    /\ UNCHANGED <<temp_pdf_path, temp_exists, pdf_doc, i, term_map>>
    /\ UNCHANGED <<failed_page, open_failed, save_dialog, save_calls, threadVars>>
    /\ UNCHANGED <<guiVars, constVars, termsVars, recVars, saveVars>>

\* the finally of extract_from_pdf (version 2.0): pdf_doc.close(), then the
\* return of term_map or the exception goes on
PdfFinally ==
    /\ Top = "extract_from_pdf" /\ pc = "finally"
    /\ pdf_open' = FALSE
    /\ ext_calls' = ext_calls \cup {"close"}
    /\ Leave(exc)
    /\ UNCHANGED <<arg_path, arg_mode>>
    /\ UNCHANGED <<temp_pdf_path, temp_exists, pdf_doc, i, term_map>>
    /\ UNCHANGED <<failed_page, open_failed, save_dialog, save_calls, threadVars>>
    /\ UNCHANGED <<guiVars, constVars, termsVars, recVars, saveVars>>

\* the finally of extract_from_docx: the temp file is removed if it exists.
\* os.remove of a file the process still holds open (a document opened and
\* not closed: version 1, when the loop raised) removes it or raises
\* PermissionError, as the operating system decides; the exception raised in
\* the finally replaces the one that was propagating.
DocxFinally ==
    /\ Top = "extract_from_docx" /\ pc = "finally"
    /\ IF temp_pdf_path # NoPath /\ temp_exists
       THEN /\ ext_calls' = ext_calls \cup {"remove"}
            /\ \E removed \in BOOLEAN :
                   /\ ~pdf_open => removed
                   /\ temp_exists' = ~removed
                   /\ Leave(IF removed THEN exc ELSE "PermissionError")
       ELSE /\ UNCHANGED <<temp_exists, ext_calls>>
            /\ Leave(exc)
    /\ UNCHANGED <<arg_path, arg_mode>>
    /\ UNCHANGED <<temp_pdf_path, pdf_doc, pdf_open, i, term_map>>
    /\ UNCHANGED <<failed_page, open_failed, save_dialog, save_calls, threadVars>>
    /\ UNCHANGED <<guiVars, constVars, termsVars, recVars, saveVars>>

\* an except clause that lets every exception but ValueError through
Caught_value_error_only(e) == e = "ValueError"

\* except Exception as e: every exception the extract methods raise is caught
Caught(e) == e \in {"ValueError", "ImportError", "ConvertError", "OpenError",
                    "PageError", "PermissionError"}

\* the end of _run_backend_task: root.after(0, on_processing_complete, ...)
\* with the term map or with the exception caught; an exception not caught
\* would end the thread with nothing scheduled
ScheduleCompletion ==
    /\ Top = "_run_backend_task" /\ pc = "schedule"
    /\ after_queue' = IF exc = "none" \/ Caught(exc)
                      THEN Append(after_queue, Completion(result.term_map, exc))
                      ELSE after_queue
    /\ pc' = "exit"
    /\ UNCHANGED <<stack, caller, arg_path, arg_mode, exc, result>>
    /\ UNCHANGED <<input_filepath, extraction_mode, start_button, processing_thread,
                   status_label, progress_bar, messagebox>>
    /\ UNCHANGED <<constVars, extractVars, histVars, threadVars>>
    /\ UNCHANGED <<termsVars, recVars, saveVars>>

\* _run_backend_task returns and its thread is over: is_alive() is false from
\* here on, which can be after the main loop has run on_processing_complete
ThreadExit ==
    /\ Top = "_run_backend_task" /\ pc = "exit"
    /\ processing_thread' = "finished"
    /\ workers' = workers - 1
    /\ stack' = << >>
    /\ pc' = "idle"
    /\ UNCHANGED <<caller, arg_path, arg_mode, exc, result>>
    /\ UNCHANGED <<input_filepath, extraction_mode, start_button, status_label,
                   progress_bar, messagebox, after_queue>>
    /\ UNCHANGED <<update_threads, completions>>
    /\ UNCHANGED <<constVars, extractVars, histVars, termsVars, recVars, saveVars>>

\* on_processing_complete, run by the main loop: with an error it reports and
\* returns; otherwise the save dialog returns a path or is cancelled, and
\* with a path save_results_as_txt runs
OnProcessingComplete ==
    /\ MainThreadFree
    /\ after_queue # << >>
    /\ after_queue' = Tail(after_queue)
    /\ completions' = completions + 1
    /\ start_button' = "normal"
    /\ progress_bar' = 0
    /\ update_threads' = CallbackOn("main")
    /\ LET done == Head(after_queue)
       IN  IF done.error # "none"
           THEN /\ status_label' = "error"
                /\ messagebox' = "failed"
                /\ UNCHANGED <<save_dialog, save_calls, saveVars>>
           ELSE /\ save_dialog' = TRUE
                /\ \E chosen \in BOOLEAN :
                       IF chosen
                       THEN /\ save_calls' = save_calls + 1
                            /\ save_map' = done.term_map
                            /\ \E prior \in {NoFile, EarlierFile} :
                                   /\ prior_file' = prior
                                   /\ \E r \in SaveResults(done.term_map, prior) :
                                          /\ save_pc' = r.pc
                                          /\ out_file' = r.file
                                          /\ status_label' =
                                                 IF r.pc = "returned" THEN "saved" ELSE "error"
                                          /\ messagebox' =
                                                 IF r.pc = "returned" THEN "saved"
                                                 ELSE "save_failed"
                            /\ UNCHANGED save_status
                       ELSE /\ status_label' = "cancelled"
                            /\ UNCHANGED <<messagebox, save_calls, saveVars>>
    /\ UNCHANGED <<input_filepath, extraction_mode, processing_thread>>
    /\ UNCHANGED <<ext_calls, failed_page, open_failed, workers>>
    /\ UNCHANGED <<constVars, callVars, extractVars, termsVars, recVars>>

Next ==
    \/ SelectFile \/ SelectMode \/ StartProcessing \/ DirectCall
    \/ RunBackendTask \/ DocxEntry \/ DocxConvert \/ PdfEntry \/ OpenPdf
    \/ LoopPage \/ LoopEnd \/ PdfFinally \/ DocxFinally
    \/ ScheduleCompletion \/ ThreadExit \/ OnProcessingComplete

Spec == Init /\ [][Next]_vars

\* what the background thread does, one step at a time
WorkerStep ==
    /\ caller = "thread"
    /\ \/ RunBackendTask \/ DocxEntry \/ DocxConvert \/ PdfEntry \/ OpenPdf
       \/ LoopPage \/ LoopEnd \/ PdfFinally \/ DocxFinally
       \/ ScheduleCompletion \/ ThreadExit

\* the application with its scheduling: a started thread keeps running (the
\* library calls it makes return or raise), and the main loop runs the
\* callbacks root.after has queued
SpecLive == Spec /\ WF_vars(WorkerStep) /\ WF_vars(OnProcessingComplete)

(***************************************************************************)
(* Claims about _extract_terms.                                            *)
(***************************************************************************)
Quick == <<"q", "u", "i", "c", "k">>
Brown == <<"b", "r", "o", "w", "n">>
Fox == <<"f", "o", "x">>
QuickBrownFoxPhrase == <<"q", "u", "i", "c", "k", " ", "b", "r", "o", "w", "n", " ", "f", "o", "x">>
TheQuickBrownFoxPhrase == <<"t", "h", "e", " ">> \o QuickBrownFoxPhrase

Returned(m) == m \in DOMAIN ret_terms

\* C9 as stated: for the text "The Quick Brown Fox", mode words yields exactly
\* the terms quick, brown, fox, and mode phrases yields a set that includes
\* "quick brown fox" as one phrase plus the filtered words.
C9_AsStated ==
    arg_text = QuickBrownFox =>
        /\ Returned("words") => Range(ret_terms["words"]) = {Quick, Brown, Fox}
        /\ Returned("phrases") =>
               {QuickBrownFoxPhrase, Quick, Brown, Fox} \subseteq Range(ret_terms["phrases"])

\* C9 as amended: for the text "The Quick Brown Fox", mode words yields exactly
\* the terms quick, brown, fox; mode phrases yields the whole capitalised run
\* "the quick brown fox" as the one phrase (the leading "The" is part of it),
\* plus the filtered words quick, brown, fox, and nothing else.
C9_QuickBrownFox ==
    arg_text = QuickBrownFox =>
        /\ Returned("words") => ret_terms["words"] = <<Quick, Brown, Fox>>
        /\ Returned("phrases") =>
               Range(ret_terms["phrases"]) = {TheQuickBrownFoxPhrase, Quick, Brown, Fox}

C9_Witness ==
    arg_text = QuickBrownFox /\ Returned("words") /\ Returned("phrases")

\* C10: for every page text the terms of mode words are among the terms of mode
\* words_no_filter, what the filter drops are stop words only, and no term of
\* mode words is a stop word.
C10_FilterOnlyRemovesStopWords ==
    (Returned("words") /\ Returned("words_no_filter")) =>
        LET w == Range(ret_terms["words"])
            nf == Range(ret_terms["words_no_filter"])
        IN  /\ w \subseteq nf
            /\ (nf \ w) \subseteq STOP_WORDS
            /\ w \cap STOP_WORDS = {}

\* a text with a stop word and another word, extracted in both modes
C10_Witness ==
    /\ Returned("words") /\ Returned("words_no_filter")
    /\ Range(ret_terms["words"]) # {}
    /\ Range(ret_terms["words_no_filter"]) \ Range(ret_terms["words"]) # {}

(***************************************************************************)
(* Claims about the accumulation.                                          *)
(***************************************************************************)
\* the term map after recording pages 1..n of doc in document order
RECURSIVE InDocumentOrder(_, _, _)
InDocumentOrder(doc, mode, n) ==
    IF n = 0 THEN EmptyMap
    ELSE RecordTerms(InDocumentOrder(doc, mode, n - 1),
                     CHOOSE l \in extract_terms(doc[n], mode) : TRUE, n)

AllRecorded == Len(rec_order) = Len(rec_doc)

\* C2: recording the pages of a document in any permutation yields the same
\* term -> pages mapping as recording them in document order.
C2_OrderIndependent ==
    AllRecorded => rec_map = InDocumentOrder(rec_doc, rec_mode, Len(rec_doc))

\* two pages sharing a term, recorded last page first
C2_Witness ==
    /\ AllRecorded
    /\ Len(rec_order) = 2 /\ rec_order[1] = 2
    /\ \E t \in DOMAIN rec_map : rec_map[t] = {1, 2}

(***************************************************************************)
(* Claims about save_results_as_txt.                                       *)
(***************************************************************************)
\* C3: saving never leaves a partial output file: if save_results_as_txt
\* fails at any point, the file at the output path is either what it was
\* before the call or the complete index, never a truncated one.
C3_NoPartialFile ==
    save_pc = "raised" =>
        \/ out_file = prior_file
        \/ out_file = [exists |-> TRUE, content |-> Writes(save_map)]

\* the positions of the chunks of one kind in the file
ChunksOf(kind) == {k \in 1..Len(out_file.content) : out_file.content[k].kind = kind}

\* the heading of the bucket block that position k lies in (0: none)
HeadingBefore(k) ==
    LET before == {h \in ChunksOf("heading") : h < k}
    IN  IF before = {} THEN 0 ELSE Max(before)

\* the bucket the claim assigns to a term: the uppercased first character
\* when it is a letter, '#' otherwise
ClaimedBucket(term) == IF term[1] \in LETTERS THEN UpperChar(term[1]) ELSE "#"

\* C7: in the rendered output every term of the term map appears on exactly
\* one term line, inside exactly one bucket block; that bucket is the
\* uppercased first character when it is a letter A-Z of either case and '#'
\* otherwise; and no bucket block is emitted without a term.
C7_OneBucketPerTerm ==
    save_pc = "returned" =>
        LET file == out_file.content
        IN  /\ \A term \in DOMAIN save_map :
                LET lines == {k \in ChunksOf("term") : file[k].label = EscapeQuotes(term, 1)}
                IN  /\ Cardinality(lines) = 1
                    /\ \A k \in lines :
                           /\ HeadingBefore(k) # 0
                           /\ file[HeadingBefore(k)].letter = ClaimedBucket(term)
            /\ Cardinality(ChunksOf("term")) = Cardinality(DOMAIN save_map)
            /\ \A h1, h2 \in ChunksOf("heading") :
                   file[h1].letter = file[h2].letter => h1 = h2
            /\ \A h \in ChunksOf("heading") :
                   h < Len(file) /\ file[h + 1].kind = "term"

\* a saved index with a lower-case, an upper-case and a non-letter lead
C7_Witness ==
    /\ save_pc = "returned"
    /\ {<<"a", "b">>, <<"B">>, <<"-", "x">>} \subseteq DOMAIN save_map

\* C8: bucket blocks are emitted in ascending alphabetical order, and the '#'
\* bucket, when present, comes last, after every letter bucket.
C8_BucketOrder ==
    save_pc = "returned" =>
        LET file == out_file.content
        IN  \A h1, h2 \in ChunksOf("heading") :
                h1 < h2 =>
                    /\ file[h1].letter # "#"
                    /\ file[h1].letter \in UPPER
                    /\ (file[h2].letter = "#" \/ Ord(file[h1].letter) < Ord(file[h2].letter))

\* a saved index with two letter buckets and the '#' bucket
C8_Witness ==
    /\ save_pc = "returned"
    /\ {out_file.content[h].letter : h \in ChunksOf("heading")} = {"A", "Z", "#"}

(***************************************************************************)
(* Claims about the extraction run.                                        *)
(***************************************************************************)
\* C1: after an extract call has processed all N pages of a document, page
\* number P of 1..N is in term_map[t] exactly when t is among the terms
\* _extract_terms yields for the text of page P in the mode of the run; no
\* other page number and no term of no page is in the map.
C1_IndexMatchesPages ==
    result.kind = "returned" =>
        LET m == result.term_map
            N == Len(pdf_doc)
        IN  /\ \A P \in 1..N :
                \A t \in DOMAIN m \cup TermSet(pdf_doc[P], arg_mode) :
                    (t \in DOMAIN m /\ P \in m[t]) <=> t \in TermSet(pdf_doc[P], arg_mode)
            /\ \A t \in DOMAIN m : m[t] # {} /\ m[t] \subseteq 1..N

\* a two-page document returned with a term of both pages and one of page 2
C1_Witness ==
    /\ result.kind = "returned"
    /\ Len(pdf_doc) = 2
    /\ \E t1, t2 \in DOMAIN result.term_map :
           result.term_map[t1] = {1, 2} /\ result.term_map[t2] = {2}

\* C4: a page whose text cannot be obtained is not an error: it contributes
\* no term, the loop goes on with the next pages, and the run still returns
\* a term map that covers every other page.
C4_PageAnomalyTolerated ==
    /\ failed_page # 0 => exc = "none"
    /\ (failed_page # 0 /\ stack = << >>) =>
           /\ result.kind = "returned"
           /\ \A P \in (1..Len(pdf_doc)) \ {failed_page} :
                  \A t \in TermSet(pdf_doc[P], arg_mode) :
                      t \in DOMAIN result.term_map /\ P \in result.term_map[t]

\* C5: with the document backend unavailable the failure comes before any
\* extraction work: start_processing starts no thread and leaves the start
\* button enabled, and the extract methods raise before any status or
\* progress callback, any conversion, any opening of a file and any temp PDF.
C5_MissingCapabilityFirst ==
    ~FILE_PROCESSING_AVAILABLE =>
        /\ processing_thread = "none"
        /\ start_button = "normal"
        /\ after_queue = << >>
        /\ ext_calls = {}
        /\ temp_pdf_path = NoPath /\ ~temp_exists /\ ~pdf_open
        /\ status_label = "ready" /\ progress_bar = 0
        /\ result.kind # "returned"
        /\ result.kind = "raised" => result.error = "ImportError"
        /\ Len(stack) <= 1

\* the button was pressed and an extract method was called, both in vain
C5_Witness ==
    /\ ~FILE_PROCESSING_AVAILABLE
    /\ messagebox = "dependency_missing"
    /\ result.kind = "raised" /\ stack = << >>

\* the extension of the path is neither .docx nor .pdf
Unrecognized(path) ==
    lower(path.ext) \notin {<<".", "d", "o", "c", "x">>, <<".", "p", "d", "f">>}

\* a run of the background thread whose input is unsupported: in version 2.0
\* an unrecognized extension, in both versions a document fitz.open rejects
UnsupportedRun ==
    /\ caller = "thread"
    /\ (version = 2 /\ Unrecognized(arg_path)) \/ open_failed

\* C6: a run on an unrecognized file type or on a page source that cannot be
\* opened yields no index: on_processing_complete receives the error with
\* term_map = None, no save dialog is offered and save_results_as_txt is not
\* called for that run.
C6_UnsupportedInputNoSave ==
    UnsupportedRun =>
        /\ result.kind # "returned"
        /\ \A k \in 1..Len(after_queue) :
               after_queue[k].error # "none" /\ ~after_queue[k].has_map
        /\ ~save_dialog /\ save_calls = 0 /\ save_pc = "idle"
        /\ completions = 1 => status_label = "error"

\* a .txt file went through version 2.0 and the failure was reported
C6_Witness ==
    /\ caller = "thread" /\ version = 2 /\ Unrecognized(arg_path)
    /\ processing_thread = "finished" /\ completions = 1
    /\ messagebox = "failed"

\* the (term, page) pairs of a term map
Pairs(m) == {tp \in (DOMAIN m) \X (UNION {m[u] : u \in DOMAIN m}) : tp[2] \in m[tp[1]]}

\* an extract call is between the creation of its term map and its return
InRun == stack # << >> /\ pc \in {"open", "loop", "finally"} /\ Top # "_run_backend_task"

\* C11: during an extraction run the term map starts empty and only grows:
\* every step of the run keeps every (term, page) pair already in the map,
\* and once the first k pages have been processed the map is exactly the
\* index of pages 1..k.
C11_GrowsMonotonically ==
    [][/\ (pc' = "open" /\ pc # "open") => term_map' = EmptyMap
       /\ (InRun /\ InRun') =>
              /\ Pairs(term_map) \subseteq Pairs(term_map')
              /\ DOMAIN term_map \subseteq DOMAIN term_map'
       /\ pc' = "loop" => term_map' = InDocumentOrder(pdf_doc', arg_mode', i')]_vars

\* both pages of a two-page document are in the map, a term on both of them
C11_Witness ==
    /\ pc = "loop" /\ i = 2
    /\ \E t \in DOMAIN term_map : term_map[t] = {1, 2}
    /\ \E t \in DOMAIN term_map : term_map[t] = {2}

(***************************************************************************)
(* Claims about the threads.                                               *)
(***************************************************************************)
\* C12: at most one thread runs _run_backend_task at any time, so no term map
\* is mutated by two threads: start_processing starts a thread only when none
\* is alive, the thread alive is the one whose calls are on the stack, its
\* extract call begins with an empty term map of its own, and start_button is
\* disabled from the start of a thread until on_processing_complete has run
\* for it.
C12_OneWorkerAtATime ==
    /\ workers <= 1
    /\ workers = 1 <=> processing_thread = "alive"
    /\ workers = 1 <=> (stack # << >> /\ stack[1] = "_run_backend_task")
    /\ (workers = 1 /\ pc = "open") => term_map = EmptyMap
    /\ (caller = "thread" /\ completions = 0) => start_button = "disabled"
    /\ start_button = "disabled" => caller = "thread"

\* on_processing_complete has run and enabled the button while the thread was
\* still alive; the button was pressed and start_processing started nothing
C12_Witness ==
    /\ workers = 1 /\ completions = 1
    /\ start_button = "normal" /\ messagebox = "busy"

\* C13: update_status and update_progress change status_label and
\* progress_bar on the main-loop thread only, never on the thread of
\* _run_backend_task, whatever the interleaving of the run.
C13_WidgetsOnMainThreadOnly == "worker" \notin update_threads

(***************************************************************************)
(* Claims about the temporary PDF.                                         *)
(***************************************************************************)
\* C15: extract_from_docx leaves no temporary PDF behind: once the temp path
\* is computed, whichever way the call ends (the conversion fails, the
\* opening or a page raises, or it returns), no file is at the temp path when
\* the call is over; and in version 2.0 the document extract_from_pdf opened
\* is closed before the temp file is removed.
C15_NoTempFileLeft ==
    /\ (temp_pdf_path # NoPath /\ "extract_from_docx" \notin Range(stack)) => ~temp_exists
    /\ (version = 2 /\ Top = "extract_from_docx" /\ pc = "finally") => ~pdf_open

(***************************************************************************)
(* Claims about the end of a run.                                          *)
(***************************************************************************)
\* a run start_processing launched whose on_processing_complete has not run
RunPending == caller = "thread" /\ completions = 0

\* on_processing_complete has run for the run start_processing launched
RunCompleted ==
    /\ caller = "thread" /\ completions = 1 /\ after_queue = << >>
    /\ start_button = "normal" /\ progress_bar = 0

\* C14: every run start_processing launches ends with exactly one call of
\* on_processing_complete, scheduled with the term map or with the error and
\* never with both, whether the extraction returns or raises; that call
\* enables start_button and sets the progress to 0, so the button does not
\* stay disabled.
C14_RunCompletesOnce ==
    /\ [](caller = "thread" =>
             /\ completions + Len(after_queue) <= 1
             /\ \A k \in 1..Len(after_queue) :
                    /\ after_queue[k].has_map <=> after_queue[k].error = "none"
                    /\ after_queue[k].has_map <=> result.kind = "returned"
                    /\ after_queue[k].has_map => after_queue[k].term_map = result.term_map
                    /\ ~after_queue[k].has_map => after_queue[k].error = exc
             /\ completions = 1 => (workers = 0 \/ pc = "exit"))
    /\ (RunPending ~> RunCompleted)

\* a run whose extraction raised has been completed and the thread is over
C14_Witness ==
    /\ RunCompleted /\ workers = 0
    /\ result.kind = "raised" /\ status_label = "error"

=============================================================================
